---------------------------- MODULE Spec2Model ----------------------------
(***************************************************************************)
(* A model of models/universal_vocoder.py: the UniversalVocoder module,    *)
(* its constructor, the teacher-forced forward pass and the sequential     *)
(* generate loop.                                                          *)
(*                                                                         *)
(* Real-valued tensors are modelled exactly, not numerically:              *)
(*  - every width (mel_dim, emb_dim, the rnn widths) is 1;                 *)
(*  - a learned layer (GRU, Embedding, Linear/ReLU, softmax) is a free     *)
(*    constructor: its result is the record of what it was applied to, so  *)
(*    two results are equal exactly when the layer saw the same arguments; *)
(*  - a rescaled sample x = 2c/mu - 1 is the integer numerator 2c - mu     *)
(*    over the denominator mu = quant_dim - 1;                             *)
(*  - a decompanded value y = sign(x)/mu * ((1+mu)^|x| - 1) is the pair    *)
(*    (sign, pw) with pw = (mu*|y| + 1)^mu = (1+mu)^|2c - mu|, an integer. *)
(* The index arithmetic of the upsampler is the library's, in float32: a    *)
(* float is the pair (m, s), the value m / 2^s with m of at most 24 bits.  *)
(***************************************************************************)
EXTENDS Integers, Sequences, FiniteSets

\* ------------------------------------------------------------------ bounds
MaxBits == 2
MaxHop == 2
MaxFrames == 2
MaxBatch == 2
MaxSteps == 4

\* ------------------------------------------------------- small arithmetic
Min(a, b) == IF a < b THEN a ELSE b

Abs(n) == IF n < 0 THEN -n ELSE n

Sign(n) == IF n < 0 THEN -1 ELSE IF n = 0 THEN 0 ELSE 1

RECURSIVE Pow(_, _)
Pow(b, e) == IF e = 0 THEN 1 ELSE b * Pow(b, e - 1)

\* ------------------------------------------------ constructor (__init__)
\* Variant: the halving is missing.
Pad_whole(W, S) == W - S

\* self.pad = (frames_per_sample - frames_per_slice) // 2
Pad(W, S) == (W - S) \div 2

\* self.quant_dim = 2 ** bits
QuantDim(bits) == Pow(2, bits)

\* ------------------------------------------------------- tensor operations
\* self.mel_rnn(mels): a two-layer bidirectional GRU; the output at frame k
\* depends on k and on the whole input sequence.
MelRnn(m) == [k \in 1..Len(m) |-> [frame |-> k, of |-> m]]

\* A Python slice s[a:b] of a sequence (0-based, end exclusive, clamped).
SliceSeq(s, a, b) ==
    LET lo == Min(a, Len(s))
        hi == Min(b, Len(s))
    IN  IF hi <= lo THEN << >> ELSE SubSeq(s, lo + 1, hi)

\* Variant: the slice ends one frame early.
TrimFrames_short(embs, p, S) == SliceSeq(embs, p, p + S - 1)

\* mel_embs[:, :, self.pad : self.pad + self.frames_per_slice]
TrimFrames(embs, p, S) == SliceSeq(embs, p, p + S)

\* ---------------------------------------- float32 index of the upsampler
\* The least k with n <= 2^k.
RECURSIVE Log2Up(_)
Log2Up(n) == IF n <= 1 THEN 0 ELSE 1 + Log2Up((n + 1) \div 2)

\* The integer nearest n / d, a tie going to the even one.
RoundHalfEven(n, d) ==
    LET q == n \div d
        r == n % d
    IN  IF 2 * r > d \/ (2 * r = d /\ q % 2 = 1) THEN q + 1 ELSE q

\* The bits an integer has beyond the 24 of a float32 significand.
RECURSIVE ExcessBits(_)
ExcessBits(p) == IF p < Pow(2, 24) THEN 0 ELSE 1 + ExcessBits(p \div 2)

\* compute_scales_value<float>: static_cast<float>(1.0 / scale_factor), the
\* float32 nearest 1 / H (for H <= 128 the rounding to double in between does
\* not change it).
ComputeScalesValue(H) ==
    LET s == 23 + Log2Up(H)
    IN  [m |-> RoundHalfEven(Pow(2, s), H), s |-> s]

\* dst_index * scale in float32: the exact product, rounded to 24 bits.
FloatMul(n, x) ==
    LET p == n * x.m
        d == ExcessBits(p)
    IN  [m |-> RoundHalfEven(p, Pow(2, d)), s |-> x.s - d]

\* floorf, of a float that is not negative.
Floorf(x) == x.m \div Pow(2, x.s)

\* nearest_neighbor_compute_source_index:
\* min(static_cast<int64_t>(floorf(dst_index * scale)), input_size - 1)
NearestNeighborComputeSourceIndex(scale, dst_index, input_size) ==
    Min(Floorf(FloatMul(dst_index, scale)), input_size - 1)

\* nearest_idx: the source index of an output index, with the two cases the
\* library treats apart, a copy and a doubling.
NearestIdx(output_index, input_size, output_size, H) ==
    IF output_size = input_size THEN output_index
    ELSE IF output_size = 2 * input_size THEN output_index \div 2
    ELSE NearestNeighborComputeSourceIndex(ComputeScalesValue(H), output_index,
                                           input_size)

\* F.interpolate(x, scale_factor=float(hop_len)): the default mode, nearest:
\* floor(n * scale_factor) outputs, output i (0-based) reads input nearest_idx(i).
Interpolate(embs, H) ==
    LET input_size == Len(embs)
        output_size == input_size * H
    IN  [j \in 1..output_size |->
            embs[NearestIdx(j - 1, input_size, output_size, H) + 1]]

\* self.embedding(wav): row wav of the table.
Embedding(c) == c

\* torch.cat((wav_emb, condition)): one input vector of the sample network.
Cat(e, c) == [emb |-> e, cond |-> c]

\* One update of the single-layer GRU self.wav_rnn: the new hidden state is a
\* function of the input and the old hidden state. The all-zero state is << >>.
WavRnnCell(x, h) == Append(h, x)

\* Variant: every step starts from h0, the hidden state is not carried along.
WavRnnSeq_nocarry(xs, h0) == [j \in 1..Len(xs) |-> WavRnnCell(xs[j], h0)]

\* self.wav_rnn over a whole sequence, from hidden state h0: every step's output.
RECURSIVE WavRnnSeq(_, _)
WavRnnSeq(xs, h0) ==
    IF xs = << >> THEN << >>
    ELSE LET h1 == WavRnnCell(Head(xs), h0)
         IN  <<h1>> \o WavRnnSeq(Tail(xs), h1)

\* self.affine: Linear, ReLU, Linear.
Affine(h) == [affine |-> h]

\* F.softmax(logit, dim=1): strictly positive on each of the quant_dim columns.
Softmax(logit) == [softmax |-> logit]

\* The place of a posterior on the unit interval, fixed by the parameters.
RECURSIVE Weight(_)
Weight(h) ==
    IF h = << >> THEN 0
    ELSE LET x == Head(h)
         IN  x.emb + x.cond.frame + x.cond.of[x.cond.frame] + 1 + Weight(Tail(h))

\* torch.multinomial(posterior, 1): inverse-CDF sampling, a function of the
\* posterior and of the generator's draw u. The posterior is positive on every
\* column, so over the draws u in 0..Q-1 every column 0..Q-1 is sampled.
Multinomial(posterior, u, Q) == (Weight(posterior.softmax.affine) + u) % Q

\* Variant: the shift by -1.0 is missing.
Rescale_unshifted(c, Q) == 2 * c

\* 2 * wav.item() / (self.quant_dim - 1.0) - 1.0, as a numerator over mu.
Rescale(c, Q) == 2 * c - (Q - 1)

\* torch.sign(x) / mu * ((1 + mu) ** torch.abs(x) - 1)
Decompand(xnum, mu) == [sign |-> Sign(xnum), pw |-> Pow(1 + mu, Abs(xnum))]

\* torch.zeros(mels.size(0), 1, self.wav_rnn_dim)
InitHidden(B) == [b \in 1..B |-> << >>]

\* Variant: the halving is missing.
NeutralCategory_whole(Q) == Q

\* The fixed starting category, self.quant_dim // 2.
NeutralCategory(Q) == Q \div 2

\* torch.empty(mels.size(0), mels.size(1) * self.hop_len): unset storage.
EmptyWavs(B, F, H) == [b \in 1..B |-> [j \in 1..(F * H) |-> [set |-> FALSE, num |-> 0]]]

\* The GRU takes h0 of shape (num_layers, batch, hidden) = (1, B, .); generate
\* passes (B, 1, .).
HiddenShapeOk(B) == <<B, 1>> = <<1, B>>

\* Tensor.item() is defined on a tensor of exactly one element.
ItemOk(B) == B = 1

\* Variant: the hidden state wav_rnn returns is dropped, the old one is kept.
LoopBody_stale(w, condition, h, u, Q) ==
    LET h2 == WavRnnCell(Cat(Embedding(w), condition), h)
    IN  [hid |-> h, logit |-> Affine(h2), wav |-> Multinomial(Softmax(Affine(h2)), u, Q)]

\* The body of the sampling loop for one sequence: embed, update, project,
\* normalise, sample.
LoopBody(w, condition, h, u, Q) ==
    LET wav_emb == Embedding(w)
        h2 == WavRnnCell(Cat(wav_emb, condition), h)
        logit == Affine(h2)
        posterior == Softmax(logit)
    IN  [hid |-> h2, logit |-> logit, wav |-> Multinomial(posterior, u, Q)]

\* forward for one sequence of the batch.
ForwardOne(w, m, p, S, H) ==
    LET embs == TrimFrames(MelRnn(m), p, S)
        cond == Interpolate(embs, H)
        wav_embs == [j \in 1..Len(w) |-> Embedding(w[j])]
        ok == Len(wav_embs) = Len(cond)
        outs == IF ok
                THEN WavRnnSeq([j \in 1..Len(w) |-> Cat(wav_embs[j], cond[j])], << >>)
                ELSE << >>
    IN  [ok |-> ok, mel_embs |-> embs, conditions |-> cond,
         scores |-> [j \in 1..Len(outs) |-> Affine(outs[j])]]

\* ----------------------------------------------------------------- inputs
\* Hop lengths: the short ones, and 41, the shortest one whose float32
\* reciprocal times a multiple of it falls below the multiple's quotient.
HopLengths == (1..MaxHop) \cup {41}

Configs ==
    {c \in [bits : 1..MaxBits, hop : HopLengths, W : 1..MaxFrames, S : 1..MaxFrames] :
        c.S <= c.W}

\* Mel-spectrograms of F frames (mel_dim = 1, two levels), and a batch built on
\* one.
MelInputs(F) == {[k \in 1..F |-> (a + k - 1) % 2] : a \in 0..1}

MelBatch(B, m) == [b \in 1..B |-> [k \in 1..Len(m) |-> (m[k] + b - 1) % 2]]

\* Quantized waveforms of n samples, and a batch built on one.
WavInputs(n, Q) ==
    {[j \in 1..n |-> (a + d * (j - 1)) % Q] : a \in 0..(Q - 1), d \in 0..1}

WavBatch(B, w, Q) == [b \in 1..B |-> [j \in 1..Len(w) |-> (w[j] + b - 1) % Q]]

\* ------------------------------------------------------------------ state
VARIABLES
    frames_per_sample, frames_per_slice, pad, quant_dim, hop_len,
    rng, replay, pc, mels, wavs_in, mel_embs, conditions, hid, wav, wavs, i,
    scores, out, seed0, draws, emb_in, logits, sampled, prev

\* Variant: the previous call's last sample is kept when the batch size matches.
InitWav_stale(B, Q) ==
    IF Len(wav) = B THEN wav ELSE [b \in 1..B |-> NeutralCategory(Q)]

\* torch.full((mels.size(0),), self.quant_dim // 2)
InitWav(B, Q) == [b \in 1..B |-> NeutralCategory(Q)]

config == <<frames_per_sample, frames_per_slice, pad, quant_dim, hop_len>>

locals == <<mels, wavs_in, mel_embs, conditions, hid, wav, wavs, i, scores, out>>

history == <<seed0, draws, emb_in, logits, sampled>>

\* The generator torch.multinomial draws from. A seed fixes a stream of draws,
\* any stream for some seed; rng is the number of draws made since the generator
\* was seeded. The stream is known as far as the observer recorded it
\* (prev[1].draws), and replay says the generator is on that recorded seed.
generator == <<rng, replay>>

vars == <<config, generator, pc, locals, history, prev>>

\* The draws a generate call on B sequences of N steps makes: one per sequence
\* and step, and none when wav_rnn raises in the first step, before the first
\* torch.multinomial.
DrawsNeeded(B, N) == IF HiddenShapeOk(B) THEN B * N ELSE 0

\* The draws left of the stream, as far as the model follows it.
DrawsLeft == (IF replay THEN Len(prev[1].draws) ELSE MaxSteps) - rng

\* A model as constructed, before any call.
Constructed ==
    /\ \E c \in Configs :
        /\ frames_per_sample = c.W
        /\ frames_per_slice = c.S
        /\ pad = Pad(c.W, c.S)
        /\ quant_dim = QuantDim(c.bits)
        /\ hop_len = c.hop
    /\ rng = 0
    /\ replay = FALSE
    /\ pc = "idle"
    /\ mels = << >>
    /\ wavs_in = << >>
    /\ mel_embs = << >>
    /\ conditions = << >>
    /\ hid = << >>
    /\ wav = << >>
    /\ wavs = << >>
    /\ i = 0
    /\ scores = << >>
    /\ out = << >>
    /\ seed0 = 0
    /\ draws = << >>
    /\ emb_in = << >>
    /\ logits = << >>
    /\ sampled = << >>
    /\ prev = << >>

\* The models of a short hop length.
Init == Constructed /\ hop_len <= MaxHop

\* torch.manual_seed(s), by the caller, between calls: with the seed of the
\* observer's record, or with another seed, whose stream is not known; the
\* observer then drops its record.
Seed ==
    /\ pc = "idle"
    /\ \E same \in BOOLEAN :
        /\ same => prev # << >>
        /\ replay' = same
        /\ prev' = IF same THEN prev ELSE << >>
    /\ rng' = 0
    /\ UNCHANGED <<config, pc, locals, history>>

\* forward(wavs, mels) on W mel frames and S * hop_len samples per sequence.
Forward ==
    /\ pc = "idle"
    /\ \E B \in 1..MaxBatch :
       \E m \in MelInputs(frames_per_sample) :
       \E w \in WavInputs(frames_per_slice * hop_len, quant_dim) :
        LET mb == MelBatch(B, m)
            wb == WavBatch(B, w, quant_dim)
            r == [b \in 1..B |-> ForwardOne(wb[b], mb[b], pad, frames_per_slice, hop_len)]
        IN  /\ mels' = mb
            /\ wavs_in' = wb
            /\ mel_embs' = [b \in 1..B |-> r[b].mel_embs]
            /\ conditions' = [b \in 1..B |-> r[b].conditions]
            /\ scores' = [b \in 1..B |-> r[b].scores]
            /\ pc' = IF \A b \in 1..B : r[b].ok THEN "fwd" ELSE "fwd_error"
    /\ UNCHANGED <<config, generator, hid, wav, wavs, i, out, history, prev>>

\* generate(mels), up to the loop: lines 60-72.
GenerateStart ==
    /\ pc = "idle"
    /\ \E B \in 1..MaxBatch :
       \E F \in 1..MaxFrames :
       \E m \in MelInputs(F) :
        LET mb == MelBatch(B, m)
            embs == [b \in 1..B |-> MelRnn(mb[b])]
        IN  /\ DrawsNeeded(B, F * hop_len) <= DrawsLeft
            /\ mels' = mb
            /\ mel_embs' = embs
            /\ conditions' = [b \in 1..B |-> Interpolate(embs[b], hop_len)]
            /\ hid' = InitHidden(B)
            /\ wav' = InitWav(B, quant_dim)
            /\ wavs' = EmptyWavs(B, F, hop_len)
    /\ i' = 0
    /\ pc' = "gen"
    /\ wavs_in' = << >>
    /\ scores' = << >>
    /\ out' = << >>
    /\ seed0' = rng
    /\ draws' = << >>
    /\ emb_in' = << >>
    /\ logits' = << >>
    /\ sampled' = << >>
    \* the observer's record, if any, is now of an earlier call
    /\ prev' = [k \in 1..Len(prev) |-> [prev[k] EXCEPT !.later = TRUE]]
    /\ UNCHANGED <<config, generator>>

\* One iteration of the loop over torch.unbind(conditions, dim=1): lines 74-82.
GenerateStep ==
    /\ pc = "gen"
    /\ i < Len(conditions[1])
    /\ LET B == Len(mels)
       IN  /\ emb_in' = Append(emb_in, wav)
           /\ IF ~HiddenShapeOk(B)
              THEN \* self.wav_rnn raises: the call ends
                   /\ pc' = "error"
                   /\ UNCHANGED <<rng, draws, hid, wav, wavs, i, logits, sampled>>
              ELSE \E us \in (IF replay
                              THEN {[b \in 1..B |-> prev[1].draws[rng + b]]}
                              ELSE [1..B -> 0..(quant_dim - 1)]) :
                   LET r == [b \in 1..B |->
                                LoopBody(wav[b], conditions[b][i + 1], hid[b],
                                         us[b], quant_dim)]
                   IN  /\ hid' = [b \in 1..B |-> r[b].hid]
                       /\ wav' = [b \in 1..B |-> r[b].wav]
                       /\ logits' = Append(logits, [b \in 1..B |-> r[b].logit])
                       /\ sampled' = Append(sampled, wav')
                       /\ draws' = draws \o us
                       /\ rng' = rng + B
                       /\ IF ~ItemOk(B)
                          THEN \* wav.item() raises: the call ends
                               /\ pc' = "error"
                               /\ UNCHANGED <<wavs, i>>
                          ELSE /\ wavs' = [b \in 1..B |->
                                            [wavs[b] EXCEPT ![i + 1] =
                                                [set |-> TRUE,
                                                 num |-> Rescale(wav'[1], quant_dim)]]]
                               /\ i' = i + 1
                               /\ pc' = "gen"
    /\ UNCHANGED <<config, replay, mels, wavs_in, mel_embs, conditions, scores, out,
                   seed0, prev>>

\* After the loop: decompanding and return, lines 84-87. A position the loop
\* never wrote holds whatever torch.empty left there.
GenerateReturn ==
    /\ pc = "gen"
    /\ i >= Len(conditions[1])
    /\ LET mu == quant_dim - 1
       IN  \E g \in {-(mu + 1), 0, mu + 1} :
            out' = [b \in 1..Len(mels) |->
                      [j \in 1..Len(wavs[b]) |->
                          Decompand(IF wavs[b][j].set THEN wavs[b][j].num ELSE g, mu)]]
    /\ pc' = "done"
    /\ UNCHANGED <<config, generator, mels, wavs_in, mel_embs, conditions, hid, wav,
                   wavs, i, scores, history, prev>>

\* An observer keeps one finished generate call that began on a newly seeded
\* generator, to compare a later one with: its input, its result and the draws
\* the seed gave it.
Record ==
    /\ pc = "done"
    /\ prev = << >>
    /\ seed0 = 0
    /\ prev' = <<[mels |-> mels, out |-> out, draws |-> draws, later |-> FALSE]>>
    /\ replay' = TRUE
    /\ UNCHANGED <<config, rng, pc, locals, history>>

\* The caller takes the result, or the exception, of the call that ended. The
\* call's tensors are dead; the model keeps wav, the last sample, as the storage
\* a later call must not read, and drops the rest.
Return ==
    /\ pc \in {"done", "error", "fwd", "fwd_error"}
    /\ pc' = "idle"
    /\ mels' = << >>
    /\ wavs_in' = << >>
    /\ mel_embs' = << >>
    /\ conditions' = << >>
    /\ hid' = << >>
    /\ wavs' = << >>
    /\ i' = 0
    /\ scores' = << >>
    /\ out' = << >>
    /\ seed0' = 0
    /\ draws' = << >>
    /\ emb_in' = << >>
    /\ logits' = << >>
    /\ sampled' = << >>
    /\ UNCHANGED <<config, generator, wav, prev>>

Next == Seed \/ Forward \/ GenerateStart \/ GenerateStep \/ GenerateReturn \/ Return

Spec == Init /\ [][Next]_vars

\* Two generate calls compared: the observer's record, under the configurations
\* of one sample per frame that differ in what generate reads.
InitDet == Init /\ frames_per_sample = 1 /\ hop_len = 1

NextDet == Seed \/ GenerateStart \/ GenerateStep \/ GenerateReturn \/ Return \/ Record

SpecDet == InitDet /\ [][NextDet]_vars

\* The models of the long hop length. generate on one sequence would take more
\* draws than the model follows, so the calls are forward and generate on a
\* batch, which ends in its first step.
InitLong == Constructed /\ hop_len > MaxHop

NextLong == Forward \/ GenerateStart \/ GenerateStep \/ Return

SpecLong == InitLong /\ [][NextLong]_vars

\* ------------------------------------------------------------ observations
\* The batch size and the frame count of the call in hand.
NumBatch == Len(mels)

NumFrames == Len(mels[1])

NumSteps == NumFrames * hop_len

InGenerate == pc \in {"gen", "done", "error"}

\* |y| <= 1 for a decompanded value y: (mu*|y| + 1)^mu <= (1 + mu)^mu.
InUnit(y, mu) == y.sign \in {-1, 0, 1} /\ y.pw >= 1 /\ y.pw <= Pow(1 + mu, mu)

\* Frames of the W-frame conditioning sequence missing before and after the kept
\* ones.
DroppedStart(b) == mel_embs[b][1].frame - 1

DroppedEnd(b) == Len(mels[b]) - mel_embs[b][Len(mel_embs[b])].frame

\* ------------------------------------------------------------------ claims
\* C1: every generate call runs its loop exactly N = F * hop_len times, writes
\* output position i at step i, never stops early, and returns F * hop_len
\* values per sequence with no position left unwritten.
C1_GenerateCompletes ==
    /\ pc = "gen" =>
        \A b \in 1..NumBatch : \A j \in 1..NumSteps : wavs[b][j].set <=> j <= i
    /\ pc \in {"done", "error"} =>
        /\ pc = "done"
        /\ i = NumSteps
        /\ Len(emb_in) = NumSteps
        /\ \A b \in 1..NumBatch :
            /\ Len(out[b]) = NumSteps
            /\ \A j \in 1..NumSteps : wavs[b][j].set

\* C2: every value generate returns lies in [-1, 1]; for every category c of
\* the bit depth the rescaled x = 2c/mu - 1 and its decompanded value do.
C2_OutputInRange ==
    LET mu == quant_dim - 1
    IN  /\ pc = "done" =>
            \A b \in 1..NumBatch : \A j \in 1..Len(out[b]) : InUnit(out[b][j], mu)
        /\ \A c \in 0..(quant_dim - 1) :
            /\ Rescale(c, quant_dim) >= -mu
            /\ Rescale(c, quant_dim) <= mu
            /\ InUnit(Decompand(Rescale(c, quant_dim), mu), mu)

\* C2 witness: a call returned a waveform holding an endpoint, -1 or 1.
C2_Witness ==
    /\ pc = "done"
    /\ quant_dim = 4
    /\ \E j \in 1..Len(out[1]) : out[1][j].pw = Pow(quant_dim, quant_dim - 1)

\* C3: forward on W mel frames and S * hop_len samples returns, and its scores
\* have time length S * hop_len, W - S even or odd.
C3_ForwardLength ==
    pc \in {"fwd", "fwd_error"} =>
        /\ pc = "fwd"
        /\ \A b \in 1..NumBatch : Len(scores[b]) = frames_per_slice * hop_len

\* C3 witness: forward returned for an odd W - S and a hop length of 2.
C3_Witness ==
    /\ pc = "fwd"
    /\ frames_per_sample - frames_per_slice = 1
    /\ hop_len = 2
    /\ Len(scores[1]) = 2

\* C4: generate serves a batch of any size B >= 1 without failing, and row b of
\* the output holds, at i, the decompanded category sampled for b at step i.
C4_BatchGenerate ==
    /\ pc # "error"
    /\ pc = "done" =>
        \A b \in 1..NumBatch : \A j \in 1..NumSteps :
            out[b][j] = Decompand(Rescale(sampled[j][b], quant_dim), quant_dim - 1)

\* C5 as stated: forward drops exactly (W - S)/2 frames at the start and
\* exactly (W - S)/2 at the end, for every S <= W.
C5_SymmetricTrim ==
    pc = "fwd" =>
        \A b \in 1..NumBatch :
            /\ 2 * DroppedStart(b) = frames_per_sample - frames_per_slice
            /\ 2 * DroppedEnd(b) = frames_per_sample - frames_per_slice

\* C5 amended: forward keeps S consecutive frames, dropping floor((W - S)/2) at
\* the start and the other W - S - floor((W - S)/2) at the end, which is
\* (W - S)/2 at both ends when W - S is even (3 and 3 for W = 10, S = 4);
\* generate drops no frame.
C5_FloorTrim ==
    LET d == frames_per_sample - frames_per_slice
        m10 == [k \in 1..10 |-> 0]
        kept10 == TrimFrames(MelRnn(m10), Pad(10, 4), 4)
    IN  /\ pc = "fwd" =>
            \A b \in 1..NumBatch :
                /\ Len(mel_embs[b]) = frames_per_slice
                /\ \A k \in 1..Len(mel_embs[b]) :
                    mel_embs[b][k] = MelRnn(mels[b])[DroppedStart(b) + k]
                /\ DroppedStart(b) = d \div 2
                /\ DroppedEnd(b) = d - d \div 2
                /\ d % 2 = 0 => DroppedStart(b) = DroppedEnd(b)
        /\ InGenerate =>
            \A b \in 1..NumBatch : mel_embs[b] = MelRnn(mels[b])
        /\ pad = d \div 2
        /\ Pad(10, 4) = 3
        /\ [k \in 1..Len(kept10) |-> kept10[k].frame] = <<4, 5, 6, 7>>

\* C5 witness: forward returned for an odd W - S, one more frame dropped at the
\* end than at the start.
C5_Witness ==
    /\ pc = "fwd"
    /\ frames_per_sample - frames_per_slice = 1
    /\ DroppedEnd(1) = DroppedStart(1) + 1

\* C6: a generate call with the mel input of an earlier call, on a generator
\* seeded as for that call (so with the same sequence of draws), returns the
\* waveform that call returned.
C6_Deterministic ==
    (/\ pc = "done"
     /\ prev # << >>
     /\ prev[1].later
     /\ prev[1].mels = mels
     /\ prev[1].draws = draws) => out = prev[1].out

\* C6 witness: a later call of at least two steps repeated the recorded call's
\* input and seed, after the generator was advanced and seeded again.
C6_Witness ==
    /\ pc = "done"
    /\ prev # << >>
    /\ prev[1].later
    /\ prev[1].mels = mels
    /\ prev[1].draws = draws
    /\ replay
    /\ seed0 = 0
    /\ Len(out[1]) >= 2
    /\ Len(wav) = 1
    /\ wav[1] # quant_dim \div 2

\* C7: step 0 embeds the category 2^bits / 2 and updates the zero hidden state;
\* step i > 0 embeds the category sampled at step i-1 and updates the hidden
\* state the update of step i-1 produced.
C7_Threading ==
    InGenerate =>
        \A b \in 1..NumBatch :
            /\ \A j \in 1..Len(emb_in) :
                emb_in[j][b] = IF j = 1 THEN quant_dim \div 2 ELSE sampled[j - 1][b]
            /\ \A j \in 1..Len(logits) :
                logits[j][b].affine =
                    WavRnnCell(Cat(Embedding(emb_in[j][b]), conditions[b][j]),
                               IF j = 1 THEN << >> ELSE logits[j - 1][b].affine)
            /\ pc = "gen" /\ i > 0 =>
                /\ hid[b] = logits[i][b].affine
                /\ wav[b] = sampled[i][b]

\* C7 witness: three steps ran, and the category fed back at the third is not
\* the one fed back at the second.
C7_Witness ==
    /\ pc = "gen"
    /\ Len(logits) >= 3
    /\ emb_in[3][1] # emb_in[2][1]

\* C8: every category passed to the embedding lookup, and the one to be passed
\* next, is an integer in [0, 2^bits).
C8_EmbeddingInRange ==
    InGenerate =>
        \A b \in 1..NumBatch :
            /\ \A j \in 1..Len(emb_in) : emb_in[j][b] \in 0..(quant_dim - 1)
            /\ wav[b] \in 0..(quant_dim - 1)

\* C8 witness: the largest category, sampled at one step, was embedded at the
\* next, and the smallest at the one after.
C8_Witness ==
    /\ pc = "gen"
    /\ quant_dim = 4
    /\ \E j \in 2..Len(emb_in) : emb_in[j][1] = quant_dim - 1
    /\ \E j \in 2..Len(emb_in) : emb_in[j][1] = 0

\* C9: with frames_per_sample = frames_per_slice = F, forward on the categories
\* the loop embedded returns, at every position, the scores the loop computed
\* at that step.
C9_SameRecurrence ==
    (/\ pc \in {"gen", "done"}
     /\ i = NumSteps
     /\ frames_per_sample = frames_per_slice
     /\ NumFrames = frames_per_sample) =>
        \A b \in 1..NumBatch :
            LET c == [j \in 1..NumSteps |-> emb_in[j][b]]
                f == ForwardOne(c, mels[b], pad, frames_per_slice, hop_len)
            IN  /\ f.ok
                /\ Len(f.scores) = NumSteps
                /\ \A j \in 1..NumSteps : f.scores[j] = logits[j][b]

\* C9 witness: a loop of four steps over two frames finished under a
\* configuration with W = S = 2.
C9_Witness ==
    /\ pc = "done"
    /\ frames_per_sample = 2
    /\ frames_per_slice = 2
    /\ NumFrames = 2
    /\ hop_len = 2
    /\ Len(logits) = 4

\* C10: in forward and in generate the upsampler turns n frame embeddings into
\* n * hop_len conditioning vectors, and the vector at k * hop_len is frame k's
\* embedding, for every hop length.
C10_Upsampler ==
    pc \in {"fwd", "gen", "done", "error"} =>
        \A b \in 1..NumBatch :
            /\ Len(conditions[b]) = Len(mel_embs[b]) * hop_len
            /\ \A k \in 0..(Len(mel_embs[b]) - 1) :
                conditions[b][k * hop_len + 1] = mel_embs[b][k + 1]

=============================================================================
